---- MODULE Spec2Model ----
(***************************************************************************)
(* Othello rules engine and environment (othello_env.py): the Board class  *)
(* (8x8 grid of ' ', 'X', 'O'), move validation and application, and the   *)
(* OthelloGame object with its step-based interface and its interactive    *)
(* turn loop.                                                              *)
(***************************************************************************)
EXTENDS Integers, Sequences, FiniteSets, TLC

(***************************************************************************)
(* Bounds of the model.                                                    *)
(***************************************************************************)
\* Coordinates handed to the Board interface and to step go up to Margin
\* beyond either end of -BoardSize .. BoardSize - 1, the indices a Python
\* list of BoardSize items accepts.
Margin == 1
\* Board-level specification: number of moves applied to a board since it
\* was last reset or loaded.
MaxBoardMoves == 2
\* Board-level specification: length of the cell patterns loaded through
\* array_to_list.
PatLen == 3

(***************************************************************************)
(* Program constants.                                                      *)
(***************************************************************************)
BoardSize == 8
InvalidMoveReward == 0 - 10

Idx == 0 .. (BoardSize - 1)
\* The coordinates callers pass: every on-board value; -BoardSize and -1, the
\* ends of the negative indices; and the values up to Margin beyond.
ExtCoords ==
  ((0 - BoardSize - Margin) .. (0 - BoardSize))
    \cup {0 - 1}
    \cup (0 .. (BoardSize - 1 + Margin))
Tiles == {"X", "O"}
Cells == Idx \X Idx

\* Cells the modelled player types at the "Enter your move" prompt of the
\* interactive loop (any other input of get_player_action that is not
\* 'quit' or 'hints' re-prompts without a state change).
PlayerInputs ==
  { <<1, 5>>, <<2, 4>>, <<3, 0>>, <<4, 1>>, <<4, 2>>, <<4, 6>>,
    <<5, 0>>, <<5, 2>>, <<5, 6>>, <<6, 1>> }

(***************************************************************************)
(* Static helpers.                                                         *)
(***************************************************************************)
is_on_board(x, y) == 0 <= x /\ x <= 7 /\ 0 <= y /\ y <= 7

is_on_corner(x, y) ==
  \/ (x = 0 /\ y = 0)
  \/ (x = 7 /\ y = 0)
  \/ (x = 0 /\ y = 7)
  \/ (x = 7 /\ y = 7)

\* Python list indexing on a list of 8 items: indices -8..7 are accepted,
\* negative ones count from the end; anything else raises IndexError.
PyIndexOK(i) == (0 - BoardSize) <= i /\ i <= BoardSize - 1
PyIndex(i) == IF i < 0 THEN i + BoardSize ELSE i

\* The direction list of is_valid_move, in its source order.
Directions ==
  << <<0, 1>>, <<1, 1>>, <<1, 0>>, <<1, -1>>,
     <<0, -1>>, <<-1, -1>>, <<-1, 0>>, <<-1, 1>> >>

(***************************************************************************)
(* Board.                                                                  *)
(***************************************************************************)
EmptyBoard == [x \in Idx |-> [y \in Idx |-> " "]]

Board_reset_swapped(b) ==
  LET blank == [x \in Idx |-> [y \in Idx |-> " "]]
      b1 == [blank EXCEPT ![3][3] = "O"]
      b2 == [b1 EXCEPT ![3][4] = "X"]
      b3 == [b2 EXCEPT ![4][3] = "X"]
  IN [b3 EXCEPT ![4][4] = "O"]

Board_reset_noblank(b) ==
  LET b1 == [b EXCEPT ![3][3] = "X"]
      b2 == [b1 EXCEPT ![3][4] = "O"]
      b3 == [b2 EXCEPT ![4][3] = "O"]
  IN [b3 EXCEPT ![4][4] = "X"]

\* Board.reset: blank all cells, then place the four starting pieces.
Board_reset(b) ==
  LET blank == [x \in Idx |-> [y \in Idx |-> " "]]
      b1 == [blank EXCEPT ![3][3] = "X"]
      b2 == [b1 EXCEPT ![3][4] = "O"]
      b3 == [b2 EXCEPT ![4][3] = "O"]
  IN [b3 EXCEPT ![4][4] = "X"]

\* Board.__init__: eight columns of blanks, then reset().
Board_init == Board_reset(EmptyBoard)

\* The inner while loop of is_valid_move (lines 76-80): advance over the
\* other player's tiles; stops on the first cell that is not other_tile or
\* at the first position off the board.
RECURSIVE WalkRun(_, _, _, _, _, _)
WalkRun(b, other_tile, x, y, xd, yd) ==
  IF b[x][y] = other_tile
  THEN IF ~is_on_board(x + xd, y + yd)
       THEN <<x + xd, y + yd>>
       ELSE WalkRun(b, other_tile, x + xd, y + yd, xd, yd)
  ELSE <<x, y>>

RECURSIVE WalkBack_inclusive(_, _, _, _, _, _)
WalkBack_inclusive(x, y, xd, yd, x_start, y_start) ==
  LET px == x - xd
      py == y - yd
  IN IF px = x_start /\ py = y_start
     THEN << <<px, py>> >>
     ELSE << <<px, py>> >>
            \o WalkBack_inclusive(px, py, xd, yd, x_start, y_start)

\* A walk that notes the cells from the start outwards.
RECURSIVE WalkBack_outwards(_, _, _, _, _, _)
WalkBack_outwards(x, y, xd, yd, x_start, y_start) ==
  LET px == x - xd
      py == y - yd
  IN IF px = x_start /\ py = y_start
     THEN << >>
     ELSE WalkBack_outwards(px, py, xd, yd, x_start, y_start)
            \o << <<px, py>> >>

\* The reverse walk of is_valid_move (lines 86-91): from (x, y) step back
\* towards the start, noting every cell before the start is reached.
RECURSIVE WalkBack(_, _, _, _, _, _)
WalkBack(x, y, xd, yd, x_start, y_start) ==
  LET px == x - xd
      py == y - yd
  IN IF px = x_start /\ py = y_start
     THEN << >>
     ELSE << <<px, py>> >> \o WalkBack(px, py, xd, yd, x_start, y_start)

\* One iteration of the for loop over the directions (lines 66-91): the
\* cells this direction appends to tiles_to_flip.
DirectionFlips(b, tile, other_tile, x_start, y_start, d) ==
  LET xd == d[1]
      yd == d[2]
      x1 == x_start + xd
      y1 == y_start + yd
  IN IF is_on_board(x1, y1) /\ b[x1][y1] = other_tile
     THEN LET x2 == x1 + xd
              y2 == y1 + yd
          IN IF ~is_on_board(x2, y2)
             THEN << >>
             ELSE LET e == WalkRun(b, other_tile, x2, y2, xd, yd)
                  IN IF ~is_on_board(e[1], e[2])
                     THEN << >>
                     ELSE IF b[e[1]][e[2]] = tile
                          THEN WalkBack(e[1], e[2], xd, yd, x_start, y_start)
                          ELSE << >>
     ELSE << >>

RECURSIVE FlipsFrom(_, _, _, _, _, _)
FlipsFrom(b, tile, other_tile, x_start, y_start, i) ==
  IF i > Len(Directions)
  THEN << >>
  ELSE DirectionFlips(b, tile, other_tile, x_start, y_start, Directions[i])
         \o FlipsFrom(b, tile, other_tile, x_start, y_start, i + 1)

\* An is_valid_move that takes 'O' for the other player's tile whatever the
\* tile of the move.
is_valid_move_other_fixed(b, tile, x_start, y_start) ==
  IF ~PyIndexOK(x_start) \/ ~PyIndexOK(y_start)
  THEN [err |-> TRUE, valid |-> FALSE, tiles_to_flip |-> << >>, board |-> b]
  ELSE IF b[PyIndex(x_start)][PyIndex(y_start)] # " "
            \/ ~is_on_board(x_start, y_start)
       THEN [err |-> FALSE, valid |-> FALSE, tiles_to_flip |-> << >>,
             board |-> b]
       ELSE LET placed == [b EXCEPT ![x_start][y_start] = tile]
                flips == FlipsFrom(placed, tile, "O", x_start, y_start, 1)
                restored == [placed EXCEPT ![x_start][y_start] = " "]
            IN [err |-> FALSE, valid |-> Len(flips) # 0,
                tiles_to_flip |-> flips, board |-> restored]

\* An is_valid_move that returns the list of a legal move without taking
\* its tile off the cell again.
is_valid_move_tile_left(b, tile, x_start, y_start) ==
  IF ~PyIndexOK(x_start) \/ ~PyIndexOK(y_start)
  THEN [err |-> TRUE, valid |-> FALSE, tiles_to_flip |-> << >>, board |-> b]
  ELSE IF b[PyIndex(x_start)][PyIndex(y_start)] # " "
            \/ ~is_on_board(x_start, y_start)
       THEN [err |-> FALSE, valid |-> FALSE, tiles_to_flip |-> << >>,
             board |-> b]
       ELSE LET placed == [b EXCEPT ![x_start][y_start] = tile]
                other_tile == IF tile = "X" THEN "O" ELSE "X"
                flips == FlipsFrom(placed, tile, other_tile,
                                   x_start, y_start, 1)
                restored == [placed EXCEPT ![x_start][y_start] = " "]
            IN [err |-> FALSE, valid |-> Len(flips) # 0,
                tiles_to_flip |-> flips,
                board |-> IF Len(flips) # 0 THEN placed ELSE restored]

\* Board.is_valid_move.  err: the call raised IndexError; valid: the call
\* returned a (non-empty) list rather than False; tiles_to_flip: that list;
\* board: the cells when the call returns or raises.
is_valid_move(b, tile, x_start, y_start) ==
  IF ~PyIndexOK(x_start) \/ ~PyIndexOK(y_start)
  THEN [err |-> TRUE, valid |-> FALSE, tiles_to_flip |-> << >>, board |-> b]
  ELSE IF b[PyIndex(x_start)][PyIndex(y_start)] # " "
            \/ ~is_on_board(x_start, y_start)
       THEN [err |-> FALSE, valid |-> FALSE, tiles_to_flip |-> << >>,
             board |-> b]
       ELSE LET placed == [b EXCEPT ![x_start][y_start] = tile]
                other_tile == IF tile = "X" THEN "O" ELSE "X"
                flips == FlipsFrom(placed, tile, other_tile,
                                   x_start, y_start, 1)
                restored == [placed EXCEPT ![x_start][y_start] = " "]
            IN [err |-> FALSE, valid |-> Len(flips) # 0,
                tiles_to_flip |-> flips, board |-> restored]

\* The items of a list.
SeqRange(s) == {s[i] : i \in 1 .. Len(s)}

\* The cells in the order get_valid_moves scans them (x outer, y inner).
ScanOrder == [i \in 1 .. (BoardSize * BoardSize) |->
                <<(i - 1) \div BoardSize, (i - 1) % BoardSize>>]

\* Board.get_valid_moves.
get_valid_moves(b, tile) ==
  SelectSeq(ScanOrder, LAMBDA c : is_valid_move(b, tile, c[1], c[2]).valid)

\* Board.get_score.
get_score(b) ==
  [t \in Tiles |-> Cardinality({c \in Cells : b[c[1]][c[2]] = t})]

\* A make_move that places the tile but omits the flipping loop.
FlipAll_none(b, tile, flips, i) == b

\* A loop that ends after the first cell of tiles_to_flip.
FlipAll_first_only(b, tile, flips, i) ==
  IF i > Len(flips)
  THEN b
  ELSE [b EXCEPT ![flips[i][1]][flips[i][2]] = tile]

\* The loop of make_move over tiles_to_flip (lines 129-130).
RECURSIVE FlipAll(_, _, _, _)
FlipAll(b, tile, flips, i) ==
  IF i > Len(flips)
  THEN b
  ELSE FlipAll([b EXCEPT ![flips[i][1]][flips[i][2]] = tile],
               tile, flips, i + 1)

\* A make_move that writes the target cell before it looks at the result of
\* is_valid_move.
make_move_place_first(b, tile, x_start, y_start) ==
  LET r == is_valid_move(b, tile, x_start, y_start)
  IN IF r.err
     THEN [err |-> TRUE, ok |-> FALSE, board |-> r.board]
     ELSE LET placed == [r.board EXCEPT
                           ![PyIndex(x_start)][PyIndex(y_start)] = tile]
          IN IF ~r.valid
             THEN [err |-> FALSE, ok |-> FALSE, board |-> placed]
             ELSE [err |-> FALSE, ok |-> TRUE,
                   board |-> FlipAll(placed, tile, r.tiles_to_flip, 1)]

\* Board.make_move.  ok: the value returned; err: IndexError raised.
make_move(b, tile, x_start, y_start) ==
  LET r == is_valid_move(b, tile, x_start, y_start)
  IN IF r.err
     THEN [err |-> TRUE, ok |-> FALSE, board |-> r.board]
     ELSE IF ~r.valid
          THEN [err |-> FALSE, ok |-> FALSE, board |-> r.board]
          ELSE [err |-> FALSE, ok |-> TRUE,
                board |-> FlipAll([r.board EXCEPT ![x_start][y_start] = tile],
                                  tile, r.tiles_to_flip, 1)]

\* Board.copy: a fresh Board() whose 64 cells are then overwritten.
copy(b) == [x \in Idx |-> [y \in Idx |-> b[x][y]]]

\* A list_to_array that reads cell board[i][j] for state[i][j].
list_to_array_untransposed(b) ==
  [i \in Idx |-> [j \in Idx |->
     IF b[i][j] = "X" THEN 1
     ELSE IF b[i][j] = "O" THEN 0 - 1
     ELSE 0]]

\* Board.list_to_array: the number at row i, column j of the array it
\* returns is read from cell board[j][i].
list_to_array(b) ==
  [i \in Idx |-> [j \in Idx |->
     IF b[j][i] = "X" THEN 1
     ELSE IF b[j][i] = "O" THEN 0 - 1
     ELSE 0]]

\* Board.array_to_list: state[i][j] is the number at row i, column j of the
\* array; it overwrites cell board[j][i].
array_to_list(b, state) ==
  [j \in Idx |-> [i \in Idx |->
     IF state[i][j] = 1 THEN "X"
     ELSE IF state[i][j] = 0 - 1 THEN "O"
     ELSE " "]]

(***************************************************************************)
(* Board objects as Python holds them: self.board is a list of BoardSize   *)
(* row lists.  A heap maps the identity of a row list to its cells, and an *)
(* object maps each x to the identity of its row.  The heap has room for   *)
(* the rows of two Board objects.                                          *)
(***************************************************************************)
RowIds == 0 .. (2 * BoardSize - 1)

\* The object whose rows are the first BoardSize row lists of the heap.
OrigObj == [x \in Idx |-> x]

\* A heap in which the rows of OrigObj hold the cells of b.
HeapOf(b) ==
  [r \in RowIds |-> IF r < BoardSize THEN b[r] ELSE [y \in Idx |-> " "]]

\* The cells of object obj in heap h.
View(h, obj) == [x \in Idx |-> [y \in Idx |-> h[obj[x]][y]]]

\* The heap after a method of obj has written the cells b2 through the rows
\* of obj (make_move, reset and array_to_list assign self.board[x][y]).
Store(h, obj, b2) ==
  [r \in RowIds |->
     IF \E x \in Idx : obj[x] = r
     THEN b2[CHOOSE x \in Idx : obj[x] = r]
     ELSE h[r]]

\* A copy that hands out the row lists of the original.
Board_copy_shared(h, obj) == [heap |-> h, obj |-> obj]

\* Board.copy on object obj of heap h: Board() builds BoardSize new row
\* lists holding the starting position, then every cell of obj is assigned
\* to the same cell of the new object.  The new rows are read by none of
\* the assignments, so the 64 assignments are made at once.
Board_copy(h, obj) ==
  LET dupe == [x \in Idx |-> BoardSize + x]
      built == [r \in RowIds |->
                  IF r >= BoardSize THEN Board_init[r - BoardSize] ELSE h[r]]
  IN [heap |-> Store(built, dupe, View(built, obj)), obj |-> dupe]

\* The cells of a board b with '.' on the moves get_valid_moves finds for
\* tile (the loop of copy_with_valid_moves, lines 148-149).
MarkValidMoves(b, tile) ==
  LET valid == SeqRange(get_valid_moves(b, tile))
  IN [x \in Idx |-> [y \in Idx |->
        IF <<x, y>> \in valid THEN "." ELSE b[x][y]]]

\* A copy_with_valid_moves that marks the moves on the board it was called
\* on.
copy_with_valid_moves_in_place(h, obj, tile) ==
  [heap |-> Store(h, obj, MarkValidMoves(View(h, obj), tile)), obj |-> obj]

\* Board.copy_with_valid_moves on object obj of heap h: the heap when it
\* returns and the object it returns.
copy_with_valid_moves(h, obj, tile) ==
  LET c == Board_copy(h, obj)
  IN [heap |-> Store(c.heap, c.obj, MarkValidMoves(View(c.heap, c.obj), tile)),
      obj |-> c.obj]

(***************************************************************************)
(* OthelloGame.                                                            *)
(***************************************************************************)
VARIABLES
  board,           \* self.board.board: the live board
  player_tile,     \* self.player_tile
  computer_tile,   \* self.computer_tile
  player_score,    \* self.player_score
  computer_score,  \* self.computer_score
  interactive,     \* self.interactive
  show_hints,      \* self.show_hints
  turn,            \* the local variable turn of run_interactive
  pc,              \* where the caller or the interactive loop stands
  last,            \* name and outcome of the most recent call
  moves            \* moves applied to the live board since its last reset

vars == <<board, player_tile, computer_tile, player_score, computer_score,
          interactive, show_hints, turn, pc, last, moves>>

\* What a caller observes of a call: its name, the value returned and whether
\* it raised; for a move that was applied or that is_valid_move accepted,
\* also its tile and cell.  flips is the list is_valid_move returned to the
\* caller or to make_move (<< >> when it returned False).
Outcome(op, tile, x, y, ok, err, reward, terminal, flips) ==
  [op |-> op, tile |-> tile, x |-> x, y |-> y, ok |-> ok, err |-> err,
   reward |-> reward, terminal |-> terminal, flips |-> flips]

Plain(op) == Outcome(op, "", 0 - 1, 0 - 1, TRUE, FALSE, 0, FALSE, << >>)

step_rejected_zero(v) ==
  [err |-> FALSE, reward |-> 0, board |-> v.board, terminal |-> FALSE]

\* step, line 300: the return for a move is_valid_move rejects; v is what
\* is_valid_move left behind.
step_rejected(v) ==
  [err |-> FALSE, reward |-> InvalidMoveReward, board |-> v.board,
   terminal |-> FALSE]

step_is_terminal_either(next_board, ptile, ctile) ==
  \/ get_valid_moves(next_board, ptile) = << >>
  \/ get_valid_moves(next_board, ctile) = << >>

\* step, line 308: the terminal test on the board after the move.
step_is_terminal(next_board, ptile, ctile) ==
  /\ get_valid_moves(next_board, ptile) = << >>
  /\ get_valid_moves(next_board, ctile) = << >>

\* step, lines 310-315: the reward of a terminal step, from the score
\* fields of the game.
step_terminal_reward(pscore, cscore) ==
  IF pscore > cscore THEN 1
  ELSE IF pscore < cscore THEN 0 - 1
  ELSE 0

\* A step that answers the player's move with the first legal move of the
\* computer, if it has one.
step_with_reply(b, ptile, ctile, pscore, cscore, action) ==
  LET next_board == copy(b)
      v == is_valid_move(b, ptile, action[1], action[2])
  IN IF v.err
     THEN [err |-> TRUE, reward |-> 0, board |-> v.board, terminal |-> FALSE]
     ELSE IF ~v.valid
          THEN step_rejected(v)
          ELSE LET moved == make_move(next_board, ptile,
                                      action[1], action[2]).board
                   replies == get_valid_moves(moved, ctile)
                   answered == IF replies = << >>
                               THEN moved
                               ELSE make_move(moved, ctile, replies[1][1],
                                              replies[1][2]).board
                   terminal == step_is_terminal(answered, ptile, ctile)
                   reward == IF terminal
                             THEN step_terminal_reward(pscore, cscore)
                             ELSE 0
               IN [err |-> FALSE, reward |-> reward, board |-> copy(answered),
                   terminal |-> terminal]

\* OthelloGame.step on a game whose fields are the arguments.  err: the
\* call raised IndexError; otherwise (reward, board, terminal) is the tuple
\* returned and board is self.board when the call returns.
step(b, ptile, ctile, pscore, cscore, action) ==
  LET next_board == copy(b)
      v == is_valid_move(b, ptile, action[1], action[2])
  IN IF v.err
     THEN [err |-> TRUE, reward |-> 0, board |-> v.board, terminal |-> FALSE]
     ELSE IF ~v.valid
          THEN step_rejected(v)
          ELSE LET moved == make_move(next_board, ptile,
                                      action[1], action[2]).board
                   terminal == step_is_terminal(moved, ptile, ctile)
                   reward == IF terminal
                             THEN step_terminal_reward(pscore, cscore)
                             ELSE 0
               IN [err |-> FALSE, reward |-> reward, board |-> copy(moved),
                   terminal |-> terminal]

\* A loop that hands the turn to the computer after every move of the
\* player that does not end the game.
after_player_move_alternate(b, ptile, ctile) ==
  IF get_valid_moves(b, ctile) = << >> /\ get_valid_moves(b, ptile) = << >>
  THEN [pc |-> "over", turn |-> "player"]
  ELSE [pc |-> "turn", turn |-> "computer"]

\* run_interactive, lines 353-360: what follows the player's move.
after_player_move(b, ptile, ctile) ==
  IF get_valid_moves(b, ctile) = << >>
  THEN IF get_valid_moves(b, ptile) = << >>
       THEN [pc |-> "over", turn |-> "player"]
       ELSE [pc |-> "turn", turn |-> "player"]
  ELSE [pc |-> "turn", turn |-> "computer"]

after_computer_move_alternate(b, ptile, ctile) ==
  IF get_valid_moves(b, ptile) = << >> /\ get_valid_moves(b, ctile) = << >>
  THEN [pc |-> "over", turn |-> "computer"]
  ELSE [pc |-> "turn", turn |-> "player"]

\* run_interactive, lines 369-376: what follows the computer's move.
after_computer_move(b, ptile, ctile) ==
  IF get_valid_moves(b, ptile) = << >>
  THEN IF get_valid_moves(b, ctile) = << >>
       THEN [pc |-> "over", turn |-> "computer"]
       ELSE [pc |-> "turn", turn |-> "computer"]
  ELSE [pc |-> "turn", turn |-> "player"]

\* The cells that are empty in b and hold a piece in b2.
Placed(b, b2) ==
  {c \in Cells : b[c[1]][c[2]] = " " /\ b2[c[1]][c[2]] # " "}

\* get_computer_move, lines 258-260: the first corner of the shuffled list,
\* << >> if it holds none.
RECURSIVE FirstCorner(_, _)
FirstCorner(order, i) ==
  IF i > Len(order)
  THEN << >>
  ELSE IF is_on_corner(order[i][1], order[i][2])
       THEN order[i]
       ELSE FirstCorner(order, i + 1)

\* get_computer_move, lines 266-268: the computer's piece count after the
\* move m is made on a copy of the board.
SimulatedScore(b, ctile, m) ==
  get_score(make_move(copy(b), ctile, m[1], m[2]).board)[ctile]

\* A second loop that settles for the first move of the shuffled list.
BestMove_first(order, score, i, best_move, best_score) ==
  IF Len(order) = 0 THEN << >> ELSE order[1]

\* get_computer_move, lines 263-272: the loop that remembers the best
\* scoring move; score[m] is the simulated score of move m.
RECURSIVE BestMove(_, _, _, _, _)
BestMove(order, score, i, best_move, best_score) ==
  IF i > Len(order)
  THEN best_move
  ELSE IF score[order[i]] > best_score
       THEN BestMove(order, score, i + 1, order[i], score[order[i]])
       ELSE BestMove(order, score, i + 1, best_move, best_score)

\* The list s started at its k-th item and wrapped around.
Rotation(s, k) ==
  [i \in 1 .. Len(s) |-> s[((i + k - 2) % Len(s)) + 1]]

\* The orders random.shuffle is modelled to leave possible_moves in: every
\* move comes first in one of them.  The value get_computer_move returns
\* is the first corner or the first highest-scoring move of the shuffled
\* list, so these orders produce every value that some shuffle produces.
Shuffles(s) == {Rotation(s, k) : k \in 1 .. Len(s)}

\* OthelloGame.get_computer_move: the values it can return over the
\* outcomes of random.shuffle; << >> is the empty best_move it returns for
\* an empty list of moves.
get_computer_move(b, ctile) ==
  LET possible_moves == get_valid_moves(b, ctile)
      score == [m \in SeqRange(possible_moves) |->
                  SimulatedScore(b, ctile, m)]
  IN IF possible_moves = << >>
     THEN {<< >>}
     ELSE {LET corner == FirstCorner(order, 1)
           IN IF corner # << >>
              THEN corner
              ELSE BestMove(order, score, 1, << >>, 0 - 1) :
             order \in Shuffles(possible_moves)}

Init ==
  /\ board = Board_init
  /\ player_tile = "X"
  /\ computer_tile = "O"
  /\ player_score = 0
  /\ computer_score = 0
  /\ interactive \in BOOLEAN
  /\ show_hints = FALSE
  /\ turn = "none"
  /\ pc = "idle"
  /\ last = Plain("init")
  /\ moves = 0

\* OthelloGame.reset.
OthelloGame_reset ==
  /\ pc = "idle"
  /\ board' = Board_reset(board)
  /\ player_score' = 0
  /\ computer_score' = 0
  /\ moves' = 0
  /\ last' = Plain("reset")
  /\ UNCHANGED <<player_tile, computer_tile, interactive, show_hints, turn, pc>>

\* OthelloGame.start up to the input() of choose_player_tile; in both modes
\* the board is reset first.
start ==
  /\ pc = "idle"
  /\ board' = Board_reset(board)
  /\ moves' = 0
  /\ pc' = "choose"
  /\ last' = Plain("start")
  /\ UNCHANGED <<player_tile, computer_tile, player_score, computer_score,
                 interactive, show_hints, turn>>

\* choose_player_tile once 'X' or 'O' is typed, and what its caller does
\* next: run_interactive shows hints and enters the turn loop, start
\* (non-interactive) hides them and returns.
choose_player_tile(tile) ==
  /\ pc = "choose"
  /\ player_tile' = IF tile = "X" THEN "X" ELSE "O"
  /\ computer_tile' = IF tile = "X" THEN "O" ELSE "X"
  /\ show_hints' = interactive
  /\ turn' = IF interactive
             THEN IF tile = "X" THEN "player" ELSE "computer"
             ELSE "none"
  /\ pc' = IF interactive THEN "turn" ELSE "idle"
  /\ last' = Plain("choose_player_tile")
  /\ UNCHANGED <<board, player_score, computer_score, interactive, moves>>

\* input() of choose_player_tile raises (EOFError at end of input,
\* KeyboardInterrupt): the exception leaves start / run_interactive and
\* the caller keeps the game object.
ChooseInterrupted ==
  /\ pc = "choose"
  /\ pc' = "idle"
  /\ last' = Outcome("start", "", 0 - 1, 0 - 1, FALSE, TRUE, 0, FALSE, << >>)
  /\ UNCHANGED <<board, player_tile, computer_tile, player_score,
                 computer_score, interactive, show_hints, turn, moves>>

\* A call of OthelloGame.step(action).
Step(action) ==
  /\ pc = "idle"
  /\ LET r == step(board, player_tile, computer_tile,
                   player_score, computer_score, action)
     IN /\ board' = r.board
        /\ moves' = IF r.board = board THEN moves ELSE moves + 1
        /\ last' = IF r.board = board
                   THEN Outcome("step", "", 0 - 1, 0 - 1,
                                ~r.err, r.err, r.reward, r.terminal, << >>)
                   ELSE Outcome("step", player_tile, action[1], action[2],
                                TRUE, FALSE, r.reward, r.terminal, << >>)
  /\ UNCHANGED <<player_tile, computer_tile, player_score, computer_score,
                 interactive, show_hints, turn, pc>>

\* run_interactive, lines 334-339: the live board after the display that
\* opens the player's turn; with hints on, the board drawn is the one
\* copy_with_valid_moves returns.
player_turn_display(b, hints, ptile) ==
  IF hints
  THEN View(copy_with_valid_moves(HeapOf(b), OrigObj, ptile).heap, OrigObj)
  ELSE b

\* The player types 'quit': sys.exit().
PlayerQuit ==
  /\ pc = "turn"
  /\ turn = "player"
  /\ board' = player_turn_display(board, show_hints, player_tile)
  /\ pc' = "exited"
  /\ last' = Plain("quit")
  /\ UNCHANGED <<player_tile, computer_tile, player_score,
                 computer_score, interactive, show_hints, turn, moves>>

\* The player types 'hints'.
PlayerHints ==
  /\ pc = "turn"
  /\ turn = "player"
  /\ board' = player_turn_display(board, show_hints, player_tile)
  /\ show_hints' = ~show_hints
  /\ last' = Plain("hints")
  /\ UNCHANGED <<player_tile, computer_tile, player_score,
                 computer_score, interactive, turn, pc, moves>>

\* The player types a move that get_player_action accepts; it is applied
\* and the loop runs to its next input() or to the break.
PlayerMove(x, y) ==
  /\ pc = "turn"
  /\ turn = "player"
  /\ LET shown == player_turn_display(board, show_hints, player_tile)
         m == make_move(shown, player_tile, x, y)
         n == after_player_move(m.board, player_tile, computer_tile)
     IN /\ is_valid_move(shown, player_tile, x, y).valid
        /\ board' = m.board
        /\ pc' = n.pc
        /\ turn' = n.turn
  /\ moves' = moves + 1
  /\ last' = Plain("player_move")
  /\ UNCHANGED <<player_tile, computer_tile, player_score, computer_score,
                 interactive, show_hints>>

\* Enter is pressed at the computer's turn: get_computer_move, make_move
\* and the loop up to its next input() or to the break.  Unpacking the
\* empty best_move raises ValueError.
ComputerMove ==
  /\ pc = "turn"
  /\ turn = "computer"
  /\ \E c \in get_computer_move(board, computer_tile) :
       IF c = << >>
       THEN /\ pc' = "crashed"
            /\ last' = Plain("computer_move")
            /\ UNCHANGED <<board, turn, moves>>
       ELSE LET m == make_move(board, computer_tile, c[1], c[2])
                n == after_computer_move(m.board, player_tile, computer_tile)
            IN /\ board' = m.board
               /\ pc' = n.pc
               /\ turn' = n.turn
               /\ moves' = moves + 1
               /\ last' = Outcome("computer_move", computer_tile, c[1], c[2],
                                  TRUE, FALSE, 0, FALSE, << >>)
  /\ UNCHANGED <<player_tile, computer_tile, player_score, computer_score,
                 interactive, show_hints>>

\* After the break: the final score is stored, and the outer loop resets the
\* board and asks for the tile of the next game.
GameOver ==
  /\ pc = "over"
  /\ player_score' = get_score(board)[player_tile]
  /\ computer_score' = get_score(board)[computer_tile]
  /\ board' = Board_reset(board)
  /\ moves' = 0
  /\ pc' = "choose"
  /\ last' = Plain("game_over")
  /\ UNCHANGED <<player_tile, computer_tile, interactive, show_hints, turn>>

Next ==
  \/ OthelloGame_reset
  \/ start
  \/ \E tile \in Tiles : choose_player_tile(tile)
  \/ ChooseInterrupted
  \/ \E x \in ExtCoords, y \in ExtCoords : Step(<<x, y>>)
  \/ PlayerQuit
  \/ PlayerHints
  \/ \E c \in PlayerInputs : PlayerMove(c[1], c[2])
  \/ ComputerMove
  \/ GameOver

Spec == Init /\ [][Next]_vars

(***************************************************************************)
(* A Board object used directly by a caller (as othello_rl.py does with    *)
(* game.board): the game fields keep their constructor values.             *)
(***************************************************************************)
\* The cell reached from the edge anchor of direction d after k steps: the
\* anchor lies on the edge the direction leaves from, so the ray runs inward.
RayCell(d, k) ==
  LET ax == IF d[1] = 1 THEN 0 ELSE IF d[1] = 0 - 1 THEN 7 ELSE 3
      ay == IF d[2] = 1 THEN 0 ELSE IF d[2] = 0 - 1 THEN 7 ELSE 4
  IN <<ax + k * d[1], ay + k * d[2]>>

\* The arrays handed to array_to_list: all zero except for the numbers of
\* pattern p (over -1 and 1) laid along the ray of direction d.
RayState(d, p) ==
  [i \in Idx |-> [j \in Idx |->
     IF \E k \in 1 .. PatLen : RayCell(d, k - 1) = <<j, i>>
     THEN p[CHOOSE k \in 1 .. PatLen : RayCell(d, k - 1) = <<j, i>>]
     ELSE 0]]

InitBoard ==
  /\ board = Board_init
  /\ player_tile = "X"
  /\ computer_tile = "O"
  /\ player_score = 0
  /\ computer_score = 0
  /\ interactive = FALSE
  /\ show_hints = FALSE
  /\ turn = "none"
  /\ pc = "idle"
  /\ last = Plain("init")
  /\ moves = 0

GameFields == <<player_tile, computer_tile, player_score, computer_score,
                interactive, show_hints, turn, pc>>

\* board.reset()
Board_reset_call ==
  /\ board' = Board_reset(board)
  /\ moves' = 0
  /\ last' = Plain("Board.reset")
  /\ UNCHANGED GameFields

\* board.array_to_list(state), on a board that was just constructed or reset.
Board_array_to_list_call(state) ==
  /\ last.op \in {"init", "Board.reset"}
  /\ board' = array_to_list(board, state)
  /\ moves' = 0
  /\ last' = Plain("array_to_list")
  /\ UNCHANGED GameFields

\* board.is_valid_move(tile, x, y)
Board_is_valid_move_call(tile, x, y) ==
  /\ LET r == is_valid_move(board, tile, x, y)
     IN /\ board' = r.board
        /\ last' = IF r.valid
                   THEN Outcome("is_valid_move", tile, x, y, TRUE, FALSE,
                                0, FALSE, r.tiles_to_flip)
                   ELSE Outcome("is_valid_move", "", 0 - 1, 0 - 1, FALSE,
                                r.err, 0, FALSE, << >>)
  /\ UNCHANGED moves
  /\ UNCHANGED GameFields

\* board.make_move(tile, x, y)
Board_make_move_call(tile, x, y) ==
  /\ moves < MaxBoardMoves
  /\ LET m == make_move(board, tile, x, y)
     IN /\ board' = m.board
        /\ moves' = IF m.ok THEN moves + 1 ELSE moves
        /\ last' = IF m.ok
                   THEN Outcome("make_move", tile, x, y, TRUE, FALSE, 0, FALSE,
                                is_valid_move(board, tile, x, y).tiles_to_flip)
                   ELSE Outcome("make_move", "", 0 - 1, 0 - 1, FALSE, m.err,
                                0, FALSE, << >>)
  /\ UNCHANGED GameFields

\* board.copy_with_valid_moves(tile): the live board is what the call
\* leaves in the rows of the object it was called on.
Board_copy_with_valid_moves_call(tile) ==
  /\ LET c == copy_with_valid_moves(HeapOf(board), OrigObj, tile)
     IN board' = View(c.heap, OrigObj)
  /\ last' = Plain("copy_with_valid_moves")
  /\ UNCHANGED moves
  /\ UNCHANGED GameFields

\* board.array_to_list(board.list_to_array()): the board is loaded from
\* its own array.
Board_list_to_array_call ==
  /\ board' = array_to_list(board, list_to_array(board))
  /\ last' = Plain("array_to_list")
  /\ UNCHANGED moves
  /\ UNCHANGED GameFields

NextBoard ==
  \/ Board_reset_call
  \/ Board_list_to_array_call
  \/ \E tile \in Tiles : Board_copy_with_valid_moves_call(tile)
  \/ \E i \in 1 .. Len(Directions), p \in [1 .. PatLen -> {0 - 1, 1}] :
       Board_array_to_list_call(RayState(Directions[i], p))
  \/ \E tile \in Tiles, x \in ExtCoords, y \in ExtCoords :
       Board_is_valid_move_call(tile, x, y)
  \/ \E tile \in Tiles, c \in Cells :
       Board_make_move_call(tile, c[1], c[2])

SpecBoard == InitBoard /\ [][NextBoard]_vars

(***************************************************************************)
(* Properties.                                                             *)
(***************************************************************************)
NoMoves(b, tile) ==
  \A c \in Cells : ~is_valid_move(b, tile, c[1], c[2]).valid

SameCells(b1, b2) == \A c \in Cells : b1[c[1]][c[2]] = b2[c[1]][c[2]]

\* step applied to the fields of the current game.
StepNow(action) ==
  step(board, player_tile, computer_tile, player_score, computer_score, action)

Sign(n) == IF n > 0 THEN 1 ELSE IF n < 0 THEN 0 - 1 ELSE 0

\* C1: an action with in-range coordinates that is_valid_move rejects for the
\* player's tile makes step return reward -10 and terminal False with all 64
\* cells of the live board as they were; and a call of step never changes
\* player_tile or computer_tile, the side it moves for.
C1_InvalidMovePenalty ==
  /\ [](\A a \in Cells :
          (pc = "idle" /\ ~is_valid_move(board, player_tile, a[1], a[2]).valid)
            => LET r == StepNow(a)
               IN /\ ~r.err
                  /\ r.reward = 0 - 10
                  /\ r.terminal = FALSE
                  /\ SameCells(r.board, board))
  /\ [][last'.op = "step" /\ pc = "idle"
          => /\ player_tile' = player_tile
             /\ computer_tile' = computer_tile
             /\ (last'.reward = 0 - 10
                   => ~last'.terminal /\ SameCells(board', board))]_vars

\* A step call has just returned the penalty for a rejected action on a board
\* that an earlier step had changed.
C1_Witness ==
  /\ last.op = "step"
  /\ last.reward = 0 - 10
  /\ ~last.err
  /\ moves = 1
  /\ pc = "idle"

\* The player is to act: no call is running, or the interactive loop waits
\* for the player's move.
PlayerToAct == pc = "idle" \/ (pc = "turn" /\ turn = "player")

\* C2: when step applies a legal move, the terminal flag it returns is True
\* exactly if neither 'X' nor 'O' has a valid move on the resulting board
\* (for every step call made, and for step on every board on which the player
\* is to act).
C2_TerminalIffNoMoves ==
  /\ \A a \in Cells :
       (PlayerToAct /\ is_valid_move(board, player_tile, a[1], a[2]).valid)
         => LET r == StepNow(a)
            IN r.terminal <=> (NoMoves(r.board, "X") /\ NoMoves(r.board, "O"))
  /\ (last.op = "step" /\ last.x >= 0)
       => (last.terminal <=> (NoMoves(board, "X") /\ NoMoves(board, "O")))

\* A step call has applied a legal move and reported terminal.
C2_Witness ==
  /\ last.op = "step"
  /\ last.x >= 0
  /\ last.terminal
  /\ NoMoves(board, "X")
  /\ NoMoves(board, "O")

\* C3: a step that reports terminal returns the sign of (player's piece count
\* - opponent's piece count) on the resulting board as its reward.
C3_TerminalRewardByCount ==
  (last.op = "step" /\ last.terminal)
    => last.reward = Sign(get_score(board)[player_tile]
                          - get_score(board)[computer_tile])

\* C4: a step call that directly follows a step call that reported terminal
\* reports terminal too.
C4_TerminalPermanent ==
  [][(last.op = "step" /\ last.terminal /\ last'.op = "step")
       => last'.terminal]_vars

\* C5: in the interactive loop, a move after which the other side has no
\* legal move while the mover has one leaves the turn with the mover, at its
\* next prompt, with one more piece on the board and no piece added for the
\* skipped side; and the inner loop is left exactly when neither side has a
\* legal move.
C5_TurnSkipAndEnd ==
  /\ [](pc = "over" => NoMoves(board, "X") /\ NoMoves(board, "O"))
  /\ [](pc = "turn" => ~(NoMoves(board, "X") /\ NoMoves(board, "O")))
  /\ [][(pc = "turn" /\ moves' = moves + 1)
          => LET mover == IF turn = "player" THEN player_tile
                          ELSE computer_tile
                 other == IF turn = "player" THEN computer_tile
                          ELSE player_tile
             IN /\ (NoMoves(board', other) /\ ~NoMoves(board', mover))
                     => /\ pc' = "turn"
                        /\ turn' = turn
                        /\ get_score(board')[other] <= get_score(board)[other]
                        /\ get_score(board')["X"] + get_score(board')["O"]
                             = get_score(board)["X"] + get_score(board)["O"] + 1
                /\ (pc' = "over")
                     <=> (NoMoves(board', other) /\ NoMoves(board', mover))]_vars

\* The computer has just moved, the player has no legal move and the computer
\* has one: the loop waits at the computer's prompt again.
C5_Witness ==
  /\ pc = "turn"
  /\ turn = "computer"
  /\ last.op = "computer_move"
  /\ NoMoves(board, player_tile)
  /\ ~NoMoves(board, computer_tile)

StartLayout(b) ==
  \A c \in Cells :
    b[c[1]][c[2]] = IF c \in {<<3, 3>>, <<4, 4>>} THEN "X"
                    ELSE IF c \in {<<3, 4>>, <<4, 3>>} THEN "O"
                    ELSE " "

Opposite(tile) == IF tile = "X" THEN "O" ELSE "X"

\* From (x, y) in direction d: k cells of the opposite colour, then, still on
\* the board, a cell of the mover's colour.
Bracketed(b, tile, x, y, d, k) ==
  /\ \A i \in 1 .. k :
       /\ is_on_board(x + i * d[1], y + i * d[2])
       /\ b[x + i * d[1]][y + i * d[2]] = Opposite(tile)
  /\ is_on_board(x + (k + 1) * d[1], y + (k + 1) * d[2])
  /\ b[x + (k + 1) * d[1]][y + (k + 1) * d[2]] = tile

DirectionSet == {d \in {0 - 1, 0, 1} \X {0 - 1, 0, 1} : d # <<0, 0>>}

RunLengths == 1 .. (BoardSize - 2)

\* The directions in which (x, y) has a neighbour of the opposite colour.
Facing(b, tile, x, y) ==
  {d \in DirectionSet : /\ is_on_board(x + d[1], y + d[2])
                        /\ b[x + d[1]][y + d[2]] = Opposite(tile)}

\* The directions in which (x, y) has a bracketed run, with its length.
Runs(b, tile, x, y) ==
  {dk \in Facing(b, tile, x, y) \X RunLengths :
     Bracketed(b, tile, x, y, dk[1], dk[2])}

\* The cells of all bracketed runs around (x, y).
Captured(b, tile, x, y) ==
  UNION { {<<x + i * dk[1][1], y + i * dk[1][2]>> : i \in 1 .. dk[2]} :
          dk \in Runs(b, tile, x, y) }

\* C6: for every colour and on-board cell, is_valid_move accepts the move
\* exactly if the cell is empty and some direction holds a bracketed run; the
\* list it returns holds exactly the cells of those runs, each once; and
\* get_valid_moves returns exactly the legal cells, each once.
C6_LegalityAndFlipSet ==
  \A tile \in Tiles :
    LET legal == {c \in Cells : /\ board[c[1]][c[2]] = " "
                                /\ Runs(board, tile, c[1], c[2]) # {}}
        v == get_valid_moves(board, tile)
    IN /\ \A c \in Cells :
            LET r == is_valid_move(board, tile, c[1], c[2])
            IN /\ ~r.err
               /\ r.valid <=> c \in legal
               /\ r.valid
                    => LET cap == Captured(board, tile, c[1], c[2])
                       IN /\ SeqRange(r.tiles_to_flip) = cap
                          /\ Len(r.tiles_to_flip) = Cardinality(cap)
       /\ SeqRange(v) = legal
       /\ Len(v) = Cardinality(legal)

\* is_valid_move has just accepted a move that captures in more than one
\* direction: two cells of the list it returned lie in different directions
\* from the cell of the move.
C6_Witness ==
  /\ last.op = "is_valid_move"
  /\ last.ok
  /\ \E i, j \in 1 .. Len(last.flips) :
       LET p == last.flips[i]
           q == last.flips[j]
       IN \/ Sign(p[1] - last.x) # Sign(q[1] - last.x)
          \/ Sign(p[2] - last.y) # Sign(q[2] - last.y)

\* C7: on the board reset produces, get_valid_moves for 'X' returns exactly
\* (2,3), (3,2), (4,5), (5,4).
C7_InitialMovesAsClaimed ==
  last.op \in {"init", "Board.reset"}
    => SeqRange(get_valid_moves(board, "X"))
         = {<<2, 3>>, <<3, 2>>, <<4, 5>>, <<5, 4>>}

\* C7, as the code has it: on the board reset produces, get_valid_moves for
\* 'X' returns exactly (2,4), (3,5), (4,2), (5,3).
C7_InitialMoves ==
  last.op \in {"init", "Board.reset"}
    => /\ SeqRange(get_valid_moves(board, "X"))
            = {<<2, 4>>, <<3, 5>>, <<4, 2>>, <<5, 3>>}
       /\ Len(get_valid_moves(board, "X")) = 4

\* reset has just been called and left the starting position.
C7_Witness ==
  /\ last.op = "Board.reset"
  /\ StartLayout(board)

\* The white cells of b that are black in b2.
TurnedBlack(b, b2) ==
  {c \in Cells : b[c[1]][c[2]] = "O" /\ b2[c[1]][c[2]] = "X"}

\* C8: on the initial board make_move('X', 2, 3) is accepted, turns exactly
\* the white cell (3,3) black and leaves the score at X = 4, O = 1.
C8_FirstMoveAsClaimed ==
  StartLayout(board)
    => LET m == make_move(board, "X", 2, 3)
       IN /\ m.ok
          /\ TurnedBlack(board, m.board) = {<<3, 3>>}
          /\ get_score(m.board) = [t \in Tiles |-> IF t = "X" THEN 4 ELSE 1]

\* C8, as the code has it: on the initial board make_move('X', 2, 4) is
\* accepted, turns exactly the white cell (3,4) black and leaves the score at
\* X = 4, O = 1.
C8_FirstMove ==
  /\ [](StartLayout(board) => make_move(board, "X", 2, 4).ok)
  /\ [][(StartLayout(board) /\ last'.op = "make_move" /\ last'.tile = "X"
           /\ last'.x = 2 /\ last'.y = 4)
          => /\ TurnedBlack(board, board') = {<<3, 4>>}
             /\ board'[2][4] = "X"
             /\ get_score(board')
                  = [t \in Tiles |-> IF t = "X" THEN 4 ELSE 1]]_vars

\* make_move('X', 2, 4) has just been applied to the initial board.
C8_Witness ==
  /\ last.op = "make_move"
  /\ last.ok
  /\ last.tile = "X"
  /\ last.x = 2
  /\ last.y = 4
  /\ moves = 1
  /\ get_score(board)["X"] = 4
  /\ get_score(board)["O"] = 1

\* C9: a reset leaves 'X' on (3,3) and (4,4), 'O' on (3,4) and (4,3) and the
\* other 60 cells empty, whatever the board held; OthelloGame.reset also
\* leaves both score fields at 0.
C9_ResetLayout ==
  /\ last.op \in {"reset", "start", "game_over"} => StartLayout(board)
  /\ last.op = "reset" => player_score = 0 /\ computer_score = 0

\* The interactive loop has just stored a non-zero final score and reset the
\* board for the next game.
C9_Witness ==
  /\ last.op = "game_over"
  /\ computer_score > 0
  /\ StartLayout(board)

\* C10: for every pair of coordinates off the board, is_valid_move returns
\* False without raising and leaves the cells as they were.
C10_OffBoardIsIllegal ==
  \A tile \in Tiles, x \in ExtCoords, y \in ExtCoords :
    ~is_on_board(x, y)
      => LET r == is_valid_move(board, tile, x, y)
         IN ~r.err /\ ~r.valid /\ SameCells(r.board, board)

\* C11: whenever is_valid_move returns False for a move, make_move with the
\* same arguments returns False too and leaves all 64 cells as they were.
C11_FailedMoveLeavesBoard ==
  \A tile \in Tiles, x \in ExtCoords, y \in ExtCoords :
    LET r == is_valid_move(board, tile, x, y)
    IN (~r.err /\ ~r.valid)
         => LET m == make_move(board, tile, x, y)
            IN ~m.err /\ ~m.ok /\ SameCells(m.board, board)

\* make_move has just returned False on a board that holds pieces of both
\* colours and on which a move had been applied before.
C11_Witness ==
  /\ last.op = "make_move"
  /\ ~last.ok
  /\ ~last.err
  /\ moves > 0
  /\ get_score(board)["X"] > 0
  /\ get_score(board)["O"] > 0

\* C12: the first piece placed on a board since its last reset, by step or
\* by the interactive loop, is an 'X'.
C12_FirstPieceIsBlack ==
  [][(moves = 0 /\ moves' = 1)
       => \A c \in Placed(board, board') : board'[c[1]][c[2]] = "X"]_vars

\* The on-board cells is_valid_move accepts for tile on board b.
LegalCells(b, tile) ==
  {c \in Cells : is_valid_move(b, tile, c[1], c[2]).valid}

\* The live board after get_valid_moves: is_valid_move is called on it for
\* the cells from the i-th of the scan on.
RECURSIVE get_valid_moves_live(_, _, _)
get_valid_moves_live(b, tile, i) ==
  IF i > Len(ScanOrder)
  THEN b
  ELSE LET nb == is_valid_move(b, tile, ScanOrder[i][1],
                               ScanOrder[i][2]).board
       IN IF nb = b
          THEN get_valid_moves_live(b, tile, i + 1)
          ELSE get_valid_moves_live(nb, tile, i + 1)

\* C13: at the computer's turn, if it has a legal move, every value
\* get_computer_move can return is a legal move; it is a corner if some
\* legal move is a corner, and otherwise no legal move leaves the computer
\* more pieces after one ply; the call leaves the live board as it was.
C13_ComputerMoveChoice ==
  (pc = "turn" /\ turn = "computer")
    => LET legal == LegalCells(board, computer_tile)
           res == get_computer_move(board, computer_tile)
           sim == [n \in legal |-> SimulatedScore(board, computer_tile, n)]
       IN /\ legal # {}
               => /\ res \subseteq legal
                  /\ (\E c \in legal : is_on_corner(c[1], c[2]))
                       => \A m \in res : is_on_corner(m[1], m[2])
                  /\ (\A c \in legal : ~is_on_corner(c[1], c[2]))
                       => \A m \in res : \A n \in legal : sim[n] <= sim[m]
          /\ SameCells(get_valid_moves_live(board, computer_tile, 1), board)

\* It is the computer's turn, and one of its legal moves is a corner that a
\* legal move off the corners outscores: the two rules disagree.
C13_Witness ==
  /\ pc = "turn"
  /\ turn = "computer"
  /\ \E c, n \in LegalCells(board, computer_tile) :
       /\ is_on_corner(c[1], c[2])
       /\ ~is_on_corner(n[1], n[2])
       /\ SimulatedScore(board, computer_tile, n)
            > SimulatedScore(board, computer_tile, c)

\* The cells a later call can leave in a board that holds b: those after
\* make_move with each colour and on-board cell, after reset, and with the
\* hint marks of each colour.
Mutations(b) ==
  {make_move(b, t, c[1], c[2]).board : t \in Tiles, c \in Cells}
    \cup {Board_reset(b)}
    \cup {MarkValidMoves(b, t) : t \in Tiles}

\* C14: the object copy returns holds the cells of the original, the call
\* leaves the original as it was, and whatever a later call writes into
\* either of the two objects, the cells of the other stay as they were.
C14_CopyIsIndependent ==
  LET c == Board_copy(HeapOf(board), OrigObj)
  IN /\ View(c.heap, c.obj) = board
     /\ View(c.heap, c.obj) = copy(board)
     /\ View(c.heap, OrigObj) = board
     /\ \A m \in Mutations(board) :
          /\ View(Store(c.heap, c.obj, m), OrigObj) = board
          /\ View(Store(c.heap, OrigObj, m), c.obj) = board

\* copy_with_valid_moves has just copied a board that moves had changed and
\* marked at least one hint on the copy.
C14_Witness ==
  /\ last.op = "copy_with_valid_moves"
  /\ moves > 0
  /\ \E t \in Tiles : MarkValidMoves(board, t) # board

\* C15: the array list_to_array returns holds 1 for 'X', -1 for 'O' and 0
\* for an empty cell, at the transposed position; on a board of these three
\* contents array_to_list applied to that array gives the 64 cells back,
\* whatever the board it is loaded into held.
C15_ArrayRoundTrip ==
  (\A c \in Cells : board[c[1]][c[2]] \in {" ", "X", "O"})
    => LET state == list_to_array(board)
       IN /\ \A c \in Cells :
               state[c[2]][c[1]] = IF board[c[1]][c[2]] = "X" THEN 1
                                   ELSE IF board[c[1]][c[2]] = "O" THEN 0 - 1
                                   ELSE 0
          /\ array_to_list(board, state) = board
          /\ array_to_list(Board_init, state) = board
          /\ array_to_list(EmptyBoard, state) = board

\* A board that moves had changed, and that differs from its transpose, has
\* just been loaded from its own array.
C15_Witness ==
  /\ last.op = "array_to_list"
  /\ moves > 0
  /\ \E c \in Cells : board[c[1]][c[2]] # board[c[2]][c[1]]
  /\ get_score(board)["X"] > 0
  /\ get_score(board)["O"] > 0

\* The board b with every 'X' and 'O' exchanged.
Swap(b) ==
  [x \in Idx |-> [y \in Idx |->
     IF b[x][y] = "X" THEN "O"
     ELSE IF b[x][y] = "O" THEN "X"
     ELSE b[x][y]]]

\* C16: for every colour and on-board cell, is_valid_move on the board with
\* the colours exchanged and for the opposite colour gives the same verdict
\* and the same list of cells as on the board itself.
C16_ColourSwapSymmetry ==
  \A tile \in Tiles, c \in Cells :
    LET r == is_valid_move(board, tile, c[1], c[2])
        q == is_valid_move(Swap(board), Opposite(tile), c[1], c[2])
    IN /\ q.err = r.err
       /\ q.valid = r.valid
       /\ q.tiles_to_flip = r.tiles_to_flip

\* is_valid_move has just accepted a move of 'O' that captures two or more
\* cells, on a board where 'X' has no move on that cell.
C16_Witness ==
  /\ last.op = "is_valid_move"
  /\ last.ok
  /\ last.tile = "O"
  /\ Len(last.flips) >= 2
  /\ ~is_valid_move(board, "X", last.x, last.y).valid

\* C17: every cell of the live board holds ' ', 'X' or 'O' (never the hint
\* mark '.'), the three counts add up to 64, and after k moves applied since
\* the last reset exactly 4 + k cells hold a piece, so k is at most 60.
C17_CellsAndCounts ==
  LET count(v) == Cardinality({c \in Cells : board[c[1]][c[2]] = v})
  IN /\ \A c \in Cells : board[c[1]][c[2]] \in {" ", "X", "O"}
     /\ count("X") + count("O") + count(" ") = BoardSize * BoardSize
     /\ count("X") + count("O") = 4 + moves
     /\ moves <= BoardSize * BoardSize - 4

\* The player has just moved with the hints shown, as the fifth move or a
\* later one of an interactive game.
C17_Witness ==
  /\ last.op = "player_move"
  /\ show_hints
  /\ moves >= 5
  /\ get_score(board)["X"] + get_score(board)["O"] = 4 + moves

\* The length of the bracketed run from (x, y) in direction d, 0 if there is
\* none.
RunLength(b, tile, x, y, d) ==
  IF \E k \in RunLengths : Bracketed(b, tile, x, y, d, k)
  THEN CHOOSE k \in RunLengths : Bracketed(b, tile, x, y, d, k)
  ELSE 0

\* The bracketed runs around (x, y) from the i-th direction of the list on,
\* each from the cell next to (x, y) outwards.
RECURSIVE RunsNearestFirst(_, _, _, _, _)
RunsNearestFirst(b, tile, x, y, i) ==
  IF i > Len(Directions)
  THEN << >>
  ELSE LET d == Directions[i]
           k == RunLength(b, tile, x, y, d)
       IN [n \in 1 .. k |-> <<x + n * d[1], y + n * d[2]>>]
            \o RunsNearestFirst(b, tile, x, y, i + 1)

\* The same runs, each from its last cell back towards (x, y).
RECURSIVE RunsFarthestFirst(_, _, _, _, _)
RunsFarthestFirst(b, tile, x, y, i) ==
  IF i > Len(Directions)
  THEN << >>
  ELSE LET d == Directions[i]
           k == RunLength(b, tile, x, y, d)
       IN [n \in 1 .. k |->
             <<x + (k + 1 - n) * d[1], y + (k + 1 - n) * d[2]>>]
            \o RunsFarthestFirst(b, tile, x, y, i + 1)

\* C18: the list is_valid_move returns for a legal move holds the runs in
\* the order of the direction list, each run from the cell nearest to the
\* placed cell outwards.
C18_FlipOrderAsClaimed ==
  \A tile \in Tiles, c \in Cells :
    LET r == is_valid_move(board, tile, c[1], c[2])
    IN r.valid
         => r.tiles_to_flip = RunsNearestFirst(board, tile, c[1], c[2], 1)

\* C18, as the code has it: the list is_valid_move returns for a legal move
\* holds the runs in the order of the direction list, each run from its
\* farthest cell back to the cell next to the placed one.
C18_FlipOrder ==
  \A tile \in Tiles, c \in Cells :
    LET r == is_valid_move(board, tile, c[1], c[2])
    IN r.valid
         => r.tiles_to_flip = RunsFarthestFirst(board, tile, c[1], c[2], 1)

\* is_valid_move has just accepted a move whose list holds the second cell
\* of a run right before the first.
C18_Witness ==
  /\ last.op = "is_valid_move"
  /\ last.ok
  /\ \E i \in 1 .. (Len(last.flips) - 1) : \E d \in DirectionSet :
       /\ last.flips[i] = <<last.x + 2 * d[1], last.y + 2 * d[2]>>
       /\ last.flips[i + 1] = <<last.x + d[1], last.y + d[2]>>

\* C19: for every colour, is_valid_move on any on-board cell and
\* get_valid_moves return with all 64 cells as they were before the call.
C19_QueriesLeaveBoard ==
  \A tile \in Tiles :
    /\ \A c \in Cells :
         LET r == is_valid_move(board, tile, c[1], c[2])
         IN ~r.err /\ SameCells(r.board, board)
    /\ SameCells(get_valid_moves_live(board, tile, 1), board)

\* is_valid_move has just accepted a move, after placing the tile on the
\* cell for the walk, on a board that moves had changed; the cell is empty.
C19_Witness ==
  /\ last.op = "is_valid_move"
  /\ last.ok
  /\ moves > 0
  /\ board[last.x][last.y] = " "
  /\ Len(last.flips) > 0

\* C20: for every colour and on-board cell that is_valid_move accepts,
\* make_move returns True; afterwards the cell and the cells of the list
\* hold the mover's colour and every other cell is as before; the mover has
\* 1 + n pieces more and the opponent n fewer, n >= 1 being the length of
\* the list.
C20_LegalMoveEffect ==
  \A tile \in Tiles, c \in Cells :
    LET r == is_valid_move(board, tile, c[1], c[2])
        m == make_move(board, tile, c[1], c[2])
        n == Len(r.tiles_to_flip)
    IN r.valid
         => /\ m.ok
            /\ ~m.err
            /\ n >= 1
            /\ \A e \in Cells :
                 m.board[e[1]][e[2]]
                   = IF e = c \/ e \in SeqRange(r.tiles_to_flip)
                     THEN tile
                     ELSE board[e[1]][e[2]]
            /\ get_score(m.board)[tile] = get_score(board)[tile] + 1 + n
            /\ get_score(m.board)[Opposite(tile)]
                 = get_score(board)[Opposite(tile)] - n

\* make_move has just applied a move that turned two or more pieces, as the
\* second move or a later one on this board.
C20_Witness ==
  /\ last.op = "make_move"
  /\ last.ok
  /\ Len(last.flips) >= 2
  /\ moves >= 2
  /\ board[last.x][last.y] = last.tile
  /\ \A i \in 1 .. Len(last.flips) :
       board[last.flips[i][1]][last.flips[i][2]] = last.tile

\* C21: whenever the interactive loop waits at a turn, the side about to
\* move has a legal move on the live board: at the computer's turn
\* get_computer_move cannot return the empty list, at the player's turn some
\* cell is accepted by get_player_action, and the loop never fails on an
\* empty computer move.
C21_MoverHasMove ==
  /\ pc # "crashed"
  /\ (pc = "turn" /\ turn = "computer")
       => /\ get_valid_moves(board, computer_tile) # << >>
          /\ << >> \notin get_computer_move(board, computer_tile)
  /\ (pc = "turn" /\ turn = "player")
       => /\ get_valid_moves(board, player_tile) # << >>
          /\ \E c \in Cells :
               is_valid_move(player_turn_display(board, show_hints,
                                                 player_tile),
                             player_tile, c[1], c[2]).valid

\* The player has just moved, the computer has no legal move and the player
\* has one: the loop prompts the player again.
C21_Witness ==
  /\ pc = "turn"
  /\ turn = "player"
  /\ last.op = "player_move"
  /\ NoMoves(board, computer_tile)
  /\ ~NoMoves(board, player_tile)

\* C22: a call of step adds no piece but the player's tile and never raises
\* the count of the computer's tile; a call that step rejects does not
\* report terminal; and with player_tile = 'X', counting from the last
\* reset, the first move step accepts is not terminal, the second is, with
\* 6 'X' and no 'O' on the board, and there is no third.
C22_StepPlaysOneSide ==
  /\ []((pc = "idle" /\ player_tile = "X") => moves <= 2)
  /\ [][last'.op = "step"
          => /\ \A c \in Placed(board, board') :
                  board'[c[1]][c[2]] = player_tile
             /\ get_score(board')[computer_tile]
                  <= get_score(board)[computer_tile]
             /\ board' = board => ~last'.terminal
             /\ (player_tile = "X" /\ board' # board)
                  => /\ moves' = moves + 1
                     /\ moves' = 1 => ~last'.terminal
                     /\ moves' = 2
                          => /\ last'.terminal
                             /\ get_score(board')["X"] = 6
                             /\ get_score(board')["O"] = 0]_vars

\* With player_tile = 'X', step has just accepted its second move since the
\* reset and reported terminal, on a board of 6 'X' and no 'O'.
C22_Witness ==
  /\ last.op = "step"
  /\ last.ok
  /\ last.tile = "X"
  /\ player_tile = "X"
  /\ last.terminal
  /\ moves = 2
  /\ get_score(board) = [t \in Tiles |-> IF t = "X" THEN 6 ELSE 0]

====
